---- MODULE Spec2Model ----
(***************************************************************************)
(* Model of scripts/trailing_leg_count.py: the row reader (iter_rows), the *)
(* monthly weighted aggregation (monthly_weighted_avg), the trailing       *)
(* window smoother (trailing_average), the operator ranking                *)
(* (top_operators) and the per-operator aggregation (operator_trailing).   *)
(*                                                                         *)
(* Python floats are modelled as exact rationals <<num, den>> in lowest    *)
(* terms with den > 0; cell texts are strings and int()/float() are        *)
(* modelled as partial parsers; a dict is a sequence of [k, v] records in  *)
(* insertion order.                                                        *)
(***************************************************************************)
EXTENDS Integers, Sequences, FiniteSets, TLC

VARIABLES pc, err, header, consumed, stats, totals, result,
          series, window, keys, q, total, operators, trailing,
          SHARED, yielded

vars == <<pc, err, header, consumed, stats, totals, result,
          series, window, keys, q, total, operators, trailing,
          SHARED, yielded>>

-----------------------------------------------------------------------------
(* Bounds of the model.                                                    *)
MaxPeriods == 3
MaxVal == 3
MaxWindow == 3
MaxRows == 2
MaxTail == 3
MaxOpRows == 2
MaxOps == 2
MaxShared == 2
MaxCells == 2
MaxElems == 2

(* Program constants.                                                      *)
DefaultWindow == 12
TopK == 10

-----------------------------------------------------------------------------
(* Float arithmetic, exact.                                                *)
Abs(n) == IF n < 0 THEN -n ELSE n

RECURSIVE GCD(_, _)
GCD(a, b) == IF b = 0 THEN a ELSE GCD(b, a % b)

Rat(n, d) ==
    LET s == IF d < 0 THEN -1 ELSE 1
        g == GCD(Abs(n), Abs(d))
    IN  <<(s * n) \div g, (s * d) \div g>>

Zero == <<0, 1>>
FromInt(n) == <<n, 1>>
RatAdd(a, b) == Rat(a[1] * b[2] + b[1] * a[2], a[2] * b[2])
RatSub(a, b) == Rat(a[1] * b[2] - b[1] * a[2], a[2] * b[2])
RatMul(a, b) == Rat(a[1] * b[1], a[2] * b[2])
RatDiv(a, b) == Rat(a[1] * b[2], a[2] * b[1])
RatLess(a, b) == a[1] * b[2] < b[1] * a[2]

-----------------------------------------------------------------------------
(* Python dict: insertion-ordered sequence of [k, v].                      *)
DictKeys(d) == [j \in 1..Len(d) |-> d[j].k]
DictHas(d, key) == \E j \in 1..Len(d) : d[j].k = key
DictGet(d, key) == d[CHOOSE j \in 1..Len(d) : d[j].k = key].v
DictSet(d, key, val) ==
    IF DictHas(d, key)
    THEN [j \in 1..Len(d) |-> IF d[j].k = key THEN [k |-> key, v |-> val] ELSE d[j]]
    ELSE Append(d, [k |-> key, v |-> val])

(* Tuple comparison of (year, month) keys as sorted() applies it.          *)
PeriodLess(a, b) == a[1] < b[1] \/ (a[1] = b[1] /\ a[2] < b[2])

RECURSIVE InsertSorted(_, _)
InsertSorted(x, s) ==
    IF s = <<>> THEN <<x>>
    ELSE IF PeriodLess(x, Head(s)) THEN <<x>> \o s
    ELSE <<Head(s)>> \o InsertSorted(x, Tail(s))

RECURSIVE SortPeriods(_)
SortPeriods(s) == IF s = <<>> THEN <<>> ELSE InsertSorted(Head(s), SortPeriods(Tail(s)))

sorted_unordered(d) == DictKeys(d)

\* sorted(series): the keys of the mapping in ascending order
sorted(d) == SortPeriods(DictKeys(d))

-----------------------------------------------------------------------------
(* trailing_average                                                        *)
\* state before the loop (lines 47-49)
TrailInit == [q |-> <<>>, total |-> Zero, result |-> <<>>, ok |-> TRUE]

TrailBody_keepTotal(st, d, w, ym) ==
    LET avg == DictGet(d, ym)
        q1 == Append(st.q, avg)
        t1 == RatAdd(st.total, avg)
        evict == Len(q1) > w
        q2 == IF evict THEN Tail(q1) ELSE q1
    IN  IF Len(q2) = 0
        THEN [q |-> q2, total |-> t1, result |-> st.result, ok |-> FALSE]
        ELSE [q |-> q2, total |-> t1,
              result |-> DictSet(st.result, ym, RatDiv(t1, FromInt(Len(q2)))),
              ok |-> TRUE]

\* one iteration of the loop body (lines 51-56) for period ym
TrailBody(st, d, w, ym) ==
    LET avg == DictGet(d, ym)
        q1 == Append(st.q, avg)
        t1 == RatAdd(st.total, avg)
        evict == Len(q1) > w
        q2 == IF evict THEN Tail(q1) ELSE q1
        t2 == IF evict THEN RatSub(t1, Head(q1)) ELSE t1
    IN  IF Len(q2) = 0
        THEN [q |-> q2, total |-> t2, result |-> st.result, ok |-> FALSE]
        ELSE [q |-> q2, total |-> t2,
              result |-> DictSet(st.result, ym, RatDiv(t2, FromInt(Len(q2)))),
              ok |-> TRUE]

RECURSIVE TrailFold(_, _, _, _)
TrailFold(st, d, w, ks) ==
    IF ks = <<>> \/ ~st.ok THEN st
    ELSE TrailFold(TrailBody(st, d, w, Head(ks)), d, w, Tail(ks))

\* the whole call: [ok, result]
trailing_average(d, w) == TrailFold(TrailInit, d, w, sorted(d))

Years == {2023, 2024}
Months == {1, 12}
Periods == Years \X Months
Vals == 0..MaxVal
Windows == (0..MaxWindow) \cup {DefaultWindow}

DistinctKeys(d) == \A a, b \in 1..Len(d) : d[a].k = d[b].k => a = b

SeriesInputs ==
    {d \in UNION {[1..n -> [k : Periods, v : {FromInt(x) : x \in Vals}]] : n \in 0..MaxPeriods} :
        DistinctKeys(d)}

InitTrail ==
    /\ pc = "trail"
    /\ err = "none" /\ header = <<>> /\ consumed = <<>> /\ stats = <<>>
    /\ totals = <<>> /\ result = <<>> /\ operators = <<>>
    /\ trailing = <<>> /\ SHARED = <<>> /\ yielded = <<>>
    /\ series \in SeriesInputs
    /\ window \in Windows
    /\ keys = sorted(series)
    /\ q = <<>> /\ total = Zero

\* one pass through the for loop of trailing_average
TrailStep ==
    /\ pc = "trail"
    /\ Len(consumed) < Len(keys)
    /\ LET ym == keys[Len(consumed) + 1]
           st == TrailBody([q |-> q, total |-> total, result |-> result, ok |-> TRUE],
                           series, window, ym)
       IN  /\ q' = st.q
           /\ total' = st.total
           /\ result' = st.result
           /\ consumed' = Append(consumed, ym)
           /\ pc' = IF st.ok THEN "trail" ELSE "error"
           /\ err' = IF st.ok THEN "none" ELSE "ZeroDivisionError"
    /\ UNCHANGED <<header, stats, totals, series, window, keys, operators,
                   trailing, SHARED, yielded>>

\* the loop is exhausted: return result
TrailReturn ==
    /\ pc = "trail"
    /\ Len(consumed) = Len(keys)
    /\ pc' = "done"
    /\ UNCHANGED <<err, header, consumed, stats, totals, result, series, window,
                   keys, q, total, operators, trailing, SHARED, yielded>>

NextTrail == TrailStep \/ TrailReturn
SpecTrail == InitTrail /\ [][NextTrail]_vars

-----------------------------------------------------------------------------
(* Cell texts and their conversion by int() and float().                   *)
IsNumber(s) == s \in {"-3", "-1", "0", "1", "2", "4", "10", "12", "2023", "2024"}

NumberOf(s) ==
    CASE s = "-3" -> -3
      [] s = "-1" -> -1
      [] s = "0" -> 0
      [] s = "1" -> 1
      [] s = "2" -> 2
      [] s = "4" -> 4
      [] s = "10" -> 10
      [] s = "12" -> 12
      [] s = "2023" -> 2023
      [] s = "2024" -> 2024

Ok(x) == [e |-> "none", v |-> x]
Raise(name) == [e |-> name, v |-> 0]

\* idx = {h: i for i, h in enumerate(header)}
HasCol(hdr, c) == \E j \in 1..Len(hdr) : hdr[j] = c
Idx(hdr, c) == CHOOSE j \in 1..Len(hdr) : hdr[j] = c /\ \A m \in 1..Len(hdr) : hdr[m] = c => m <= j

\* row[idx[c]]
Lookup(hdr, row, c) ==
    IF ~HasCol(hdr, c) THEN Raise("KeyError")
    ELSE IF Idx(hdr, c) > Len(row) THEN Raise("IndexError")
    ELSE Ok(row[Idx(hdr, c)])

\* int(cell)
ToInt(cell) ==
    IF cell.e # "none" THEN cell
    ELSE IF IsNumber(cell.v) THEN Ok(NumberOf(cell.v))
    ELSE Raise("ValueError")

\* float(cell)
ToFloat(cell) ==
    IF cell.e # "none" THEN cell
    ELSE IF IsNumber(cell.v) THEN Ok(FromInt(NumberOf(cell.v)))
    ELSE Raise("ValueError")

\* float(cell) if cell else 0.0
ToFloatOrZero(cell) ==
    IF cell.e # "none" THEN cell
    ELSE IF cell.v = "" THEN Ok(Zero)
    ELSE ToFloat(cell)

\* the first exception raised by a sequence of evaluations
FirstErr(rs) ==
    IF \A j \in 1..Len(rs) : rs[j].e = "none" THEN "none"
    ELSE rs[CHOOSE j \in 1..Len(rs) : rs[j].e # "none" /\ \A m \in 1..(j - 1) : rs[m].e = "none"].e

\* stats[ym] of the defaultdict
AccGet(d, ym) == IF DictHas(d, ym) THEN DictGet(d, ym) ELSE [ws |-> Zero, cnt |-> Zero]

-----------------------------------------------------------------------------
(* monthly_weighted_avg                                                    *)
MonthlyBody_unweighted(st, hdr, row) ==
    LET y == ToInt(Lookup(hdr, row, "bet_year"))
        m == ToInt(Lookup(hdr, row, "bet_month"))
        count == ToFloat(Lookup(hdr, row, "count_of_bets"))
        val == Lookup(hdr, row, "avg_leg_count_inclusiveofstraightbets")
        avg == ToFloatOrZero(val)
        e == FirstErr(<<y, m, count, val, avg>>)
    IN  IF e # "none" THEN [e |-> e, stats |-> st]
        ELSE LET ym == <<y.v, m.v>>
                 old == AccGet(st, ym)
             IN  [e |-> "none",
                  stats |-> DictSet(st, ym,
                              [ws |-> RatAdd(old.ws, avg.v),
                               cnt |-> RatAdd(old.cnt, count.v)])]

\* the loop body, lines 38-43, on one data row
MonthlyBody(st, hdr, row) ==
    LET y == ToInt(Lookup(hdr, row, "bet_year"))
        m == ToInt(Lookup(hdr, row, "bet_month"))
        count == ToFloat(Lookup(hdr, row, "count_of_bets"))
        val == Lookup(hdr, row, "avg_leg_count_inclusiveofstraightbets")
        avg == ToFloatOrZero(val)
        e == FirstErr(<<y, m, count, val, avg>>)
    IN  IF e # "none" THEN [e |-> e, stats |-> st]
        ELSE LET ym == <<y.v, m.v>>
                 old == AccGet(st, ym)
             IN  [e |-> "none",
                  stats |-> DictSet(st, ym,
                              [ws |-> RatAdd(old.ws, RatMul(avg.v, count.v)),
                               cnt |-> RatAdd(old.cnt, count.v)])]

\* line 44
Finalize(d) ==
    [j \in 1..Len(d) |->
        [k |-> d[j].k,
         v |-> IF d[j].v.cnt # Zero THEN RatDiv(d[j].v.ws, d[j].v.cnt) ELSE Zero]]

HeaderA == <<"name", "bet_year", "bet_month", "count_of_bets",
             "avg_leg_count_inclusiveofstraightbets", "total_bet_handle">>
HeaderB == <<"total_bet_handle", "name", "bet_month", "bet_year",
             "count_of_bets", "avg_leg_count_inclusiveofstraightbets">>
Without(hdr, c) == SelectSeq(hdr, LAMBDA x : x # c)

MonthlyCols == {"bet_year", "bet_month", "count_of_bets",
                "avg_leg_count_inclusiveofstraightbets"}
MonthlyHeaders == {HeaderA, HeaderB} \cup {Without(HeaderA, c) : c \in MonthlyCols}

\* a row of cells laid out under the header; short rows lack the last cell,
\* long rows carry one more
Shapes == {"ok", "short", "long"}
MkRow(hdr, f, shape) ==
    LET r == [j \in 1..Len(hdr) |-> f[hdr[j]]]
    IN  CASE shape = "ok" -> r
          [] shape = "short" -> SubSeq(r, 1, Len(r) - 1)
          [] shape = "long" -> Append(r, "x")

PeriodTexts == {<<"2023", "12">>, <<"2024", "1">>}
CountTexts == {"", "-1", "0", "1", "2"}
AvgTexts == {"", "4", "10"}

MonthlyRows(hdr) ==
    {MkRow(hdr, [name |-> "A", bet_year |-> p[1], bet_month |-> p[2],
                 count_of_bets |-> c,
                 avg_leg_count_inclusiveofstraightbets |-> a,
                 total_bet_handle |-> "1"], sh) :
        p \in PeriodTexts, c \in CountTexts, a \in AvgTexts, sh \in Shapes}

InitMonthly ==
    /\ pc = "monthly"
    /\ err = "none" /\ consumed = <<>> /\ stats = <<>>
    /\ totals = <<>> /\ result = <<>> /\ series = <<>> /\ window = 0
    /\ keys = <<>> /\ q = <<>> /\ total = Zero /\ operators = <<>>
    /\ trailing = <<>> /\ SHARED = <<>> /\ yielded = <<>>
    /\ header \in MonthlyHeaders

\* one data row goes through the loop of monthly_weighted_avg
MonthlyRow ==
    /\ pc = "monthly"
    /\ Len(consumed) < MaxRows
    /\ \E row \in MonthlyRows(header) :
          LET st == MonthlyBody(stats, header, row)
          IN  /\ consumed' = Append(consumed, row)
              /\ stats' = st.stats
              /\ err' = st.e
              /\ pc' = IF st.e = "none" THEN "monthly" ELSE "error"
    /\ UNCHANGED <<header, totals, result, series, window, keys, q, total,
                   operators, trailing, SHARED, yielded>>

\* the row stream is exhausted: finalize and return
MonthlyReturn ==
    /\ pc = "monthly"
    /\ result' = Finalize(stats)
    /\ pc' = "done"
    /\ UNCHANGED <<err, header, consumed, stats, totals, series, window, keys,
                   q, total, operators, trailing, SHARED, yielded>>

NextMonthly == MonthlyRow \/ MonthlyReturn
SpecMonthly == InitMonthly /\ [][NextMonthly]_vars

-----------------------------------------------------------------------------
(* top_operators                                                           *)
\* lines 63-67 on one row of the stream (the header row included)
TopBody(tt, hdr, row) ==
    IF row = hdr THEN [e |-> "none", totals |-> tt]
    ELSE LET name == Lookup(hdr, row, "name")
             cell == Lookup(hdr, row, "total_bet_handle")
             handle == ToFloatOrZero(cell)
             e == FirstErr(<<name, cell, handle>>)
         IN  IF e # "none" THEN [e |-> e, totals |-> tt]
             ELSE LET old == IF DictHas(tt, name.v) THEN DictGet(tt, name.v) ELSE Zero
                  IN  [e |-> "none",
                       totals |-> DictSet(tt, name.v, RatAdd(old, handle.v))]

RECURSIVE InsertDesc_unstable(_, _)
InsertDesc_unstable(x, s) ==
    IF s = <<>> THEN <<x>>
    ELSE IF ~RatLess(x.v, Head(s).v) THEN <<x>> \o s
    ELSE <<Head(s)>> \o InsertDesc_unstable(x, Tail(s))

RECURSIVE InsertDesc(_, _)
\* x goes behind every item whose total is at least its own
InsertDesc(x, s) ==
    IF s = <<>> THEN <<x>>
    ELSE IF RatLess(Head(s).v, x.v) THEN <<x>> \o s
    ELSE <<Head(s)>> \o InsertDesc(x, Tail(s))

RECURSIVE SortDescFrom(_, _)
SortDescFrom(acc, items) ==
    IF items = <<>> THEN acc
    ELSE SortDescFrom(InsertDesc(Head(items), acc), Tail(items))

\* sorted(totals.items(), key=lambda x: x[1], reverse=True): stable
SortDesc(items) == SortDescFrom(<<>>, items)

\* lines 68-69
TopNames(tt) ==
    LET top == SubSeq(SortDesc(tt), 1, IF Len(tt) < TopK THEN Len(tt) ELSE TopK)
    IN  [j \in 1..Len(top) |-> top[j].k]

TopHeaders == {HeaderA, HeaderB, Without(HeaderA, "name"),
               Without(HeaderA, "total_bet_handle")}

TopRowOf(hdr, n, h) ==
    MkRow(hdr, [name |-> n, bet_year |-> "2024", bet_month |-> "1",
                count_of_bets |-> "1",
                avg_leg_count_inclusiveofstraightbets |-> "4",
                total_bet_handle |-> h], "ok")

\* the sheet starts with nine operators, then arbitrary rows follow
TopPrefix ==
    << <<"P1", "2">>, <<"P2", "1">>, <<"P3", "">>, <<"P4", "2">>, <<"P5", "1">>,
       <<"P6", "">>, <<"P7", "4">>, <<"P8", "1">>, <<"P9", "0">> >>
TailNames == {"A", "B", "P3"}
HandleTexts == {"", "1", "2"}

\* the rows the stream can deliver at position n (1 is the header row)
TopRowsAt(hdr, n) ==
    IF n = 1 THEN {hdr}
    ELSE IF n - 1 <= Len(TopPrefix)
         THEN {TopRowOf(hdr, TopPrefix[n - 1][1], TopPrefix[n - 1][2])}
         ELSE {TopRowOf(hdr, nm, h) : nm \in TailNames, h \in HandleTexts}

InitTop ==
    /\ pc = "top"
    /\ err = "none" /\ consumed = <<>> /\ stats = <<>>
    /\ totals = <<>> /\ result = <<>> /\ series = <<>> /\ window = 0
    /\ keys = <<>> /\ q = <<>> /\ total = Zero /\ operators = <<>>
    /\ trailing = <<>> /\ SHARED = <<>> /\ yielded = <<>>
    /\ header \in TopHeaders

\* one row of the stream goes through the loop of top_operators
TopRow ==
    /\ pc = "top"
    /\ Len(consumed) < 1 + Len(TopPrefix) + MaxTail
    /\ \E row \in TopRowsAt(header, Len(consumed) + 1) :
          LET st == TopBody(totals, header, row)
          IN  /\ consumed' = Append(consumed, row)
              /\ totals' = st.totals
              /\ err' = st.e
              /\ pc' = IF st.e = "none" THEN "top" ELSE "error"
    /\ UNCHANGED <<header, stats, result, series, window, keys, q, total,
                   operators, trailing, SHARED, yielded>>

\* the stream is exhausted: rank and return
TopReturn ==
    /\ pc = "top"
    /\ Len(consumed) >= 1
    /\ result' = TopNames(totals)
    /\ pc' = "done"
    /\ UNCHANGED <<err, header, consumed, stats, totals, series, window, keys,
                   q, total, operators, trailing, SHARED, yielded>>

NextTop == TopRow \/ TopReturn
SpecTop == InitTop /\ [][NextTop]_vars

-----------------------------------------------------------------------------
(* operator_trailing                                                       *)
InSeq(x, s) == \E j \in 1..Len(s) : s[j] = x

\* stats[name] of the outer defaultdict
OpAccGet(d, name) == IF DictHas(d, name) THEN DictGet(d, name) ELSE <<>>

\* the loop body, lines 77-85, on one data row
OpBody(st, hdr, ops, row) ==
    LET name == Lookup(hdr, row, "name")
    IN  IF name.e # "none" THEN [e |-> name.e, stats |-> st]
        ELSE IF ~InSeq(name.v, ops) THEN [e |-> "none", stats |-> st]
        ELSE LET r == MonthlyBody(OpAccGet(st, name.v), hdr, row)
             IN  IF r.e # "none" THEN [e |-> r.e, stats |-> st]
                 ELSE [e |-> "none", stats |-> DictSet(st, name.v, r.stats)]

\* line 88: the per-period division, with no guard on a zero count
OpSeries(d) ==
    IF \E j \in 1..Len(d) : d[j].v.cnt = Zero THEN Raise("ZeroDivisionError")
    ELSE Ok([j \in 1..Len(d) |-> [k |-> d[j].k, v |-> RatDiv(d[j].v.ws, d[j].v.cnt)]])

OpNames == {"A", "B", "C"}
OperatorLists ==
    {o \in UNION {[1..n -> OpNames] : n \in 0..MaxOps} :
        \A a, b \in 1..Len(o) : o[a] = o[b] => a = b}
OpHeaders == {HeaderA, HeaderB}
OpRowNames == {"A", "B"}
OpCountTexts == {"", "0", "1", "2"}
OpAvgTexts == {"", "4"}

OpRows(hdr) ==
    {MkRow(hdr, [name |-> n, bet_year |-> p[1], bet_month |-> p[2],
                 count_of_bets |-> c,
                 avg_leg_count_inclusiveofstraightbets |-> a,
                 total_bet_handle |-> "1"], "ok") :
        n \in OpRowNames, p \in PeriodTexts, c \in OpCountTexts, a \in OpAvgTexts}

InitOp ==
    /\ pc = "oprows"
    /\ err = "none" /\ consumed = <<>> /\ stats = <<>>
    /\ totals = <<>> /\ result = <<>> /\ series = <<>> /\ window = 0
    /\ keys = <<>> /\ q = <<>> /\ total = Zero
    /\ trailing = <<>> /\ SHARED = <<>> /\ yielded = <<>>
    /\ header \in OpHeaders
    /\ operators \in OperatorLists

\* one data row goes through the first loop of operator_trailing
OpRow ==
    /\ pc = "oprows"
    /\ Len(consumed) < MaxOpRows
    /\ \E row \in OpRows(header) :
          LET st == OpBody(stats, header, operators, row)
          IN  /\ consumed' = Append(consumed, row)
              /\ stats' = st.stats
              /\ err' = st.e
              /\ pc' = IF st.e = "none" THEN "oprows" ELSE "error"
    /\ UNCHANGED <<header, totals, result, series, window, keys, q, total,
                   operators, trailing, SHARED, yielded>>

\* the row stream is exhausted: go on to the loop over the operators
OpRowsDone ==
    /\ pc = "oprows"
    /\ pc' = "opfinal"
    /\ UNCHANGED <<err, header, consumed, stats, totals, result, series, window,
                   keys, q, total, operators, trailing, SHARED, yielded>>

\* lines 87-89 for the next operator
OpFinalize ==
    /\ pc = "opfinal"
    /\ Len(trailing) < Len(operators)
    /\ LET op == operators[Len(trailing) + 1]
           ser == OpSeries(OpAccGet(stats, op))
       IN  /\ stats' = IF DictHas(stats, op) THEN stats ELSE DictSet(stats, op, <<>>)
           /\ IF ser.e # "none"
              THEN /\ pc' = "error" /\ err' = ser.e
                   /\ UNCHANGED trailing
              ELSE /\ trailing' = DictSet(trailing, op,
                                     trailing_average(ser.v, DefaultWindow).result)
                   /\ UNCHANGED <<pc, err>>
    /\ UNCHANGED <<header, consumed, totals, result, series, window, keys, q,
                   total, operators, SHARED, yielded>>

\* line 90
OpReturn ==
    /\ pc = "opfinal"
    /\ Len(trailing) = Len(operators)
    /\ pc' = "done"
    /\ UNCHANGED <<err, header, consumed, stats, totals, result, series, window,
                   keys, q, total, operators, trailing, SHARED, yielded>>

NextOp == OpRow \/ OpRowsDone \/ OpFinalize \/ OpReturn
SpecOp == InitOp /\ [][NextOp]_vars

-----------------------------------------------------------------------------
(* iter_rows                                                               *)
\* elem.tag.endswith('row')
EndsWithRow(tag) == tag = "{main}row"

\* SHARED[i] with Python's indexing: a negative i counts from the end
ListIndex(lst, i) ==
    IF 0 <= i /\ i < Len(lst) THEN Ok(lst[i + 1])
    ELSE IF i < 0 /\ -i <= Len(lst) THEN Ok(lst[Len(lst) + i + 1])
    ELSE Raise("IndexError")

\* lines 24-27 on one cell; c.v is <<>> when the cell has no value node
CellValue(shared, c) ==
    LET val == IF c.v # <<>> THEN c.v[1] ELSE ""
    IN  IF c.t = "s" /\ val # ""
        THEN IF IsNumber(val) THEN ListIndex(shared, NumberOf(val))
             ELSE Raise("ValueError")
        ELSE Ok(val)

\* lines 22-28: the row built from the cells of a row element
RowOf(shared, cells) ==
    LET rs == [j \in 1..Len(cells) |-> CellValue(shared, cells[j])]
        e == FirstErr(rs)
    IN  IF e # "none" THEN Raise(e) ELSE Ok([j \in 1..Len(cells) |-> rs[j].v])

SharedTables == UNION {[1..n -> {"a", "b"}] : n \in 0..MaxShared}
IndexTexts == {"-3", "-1", "0", "1", "2"}
CellInputs ==
    {[t |-> "s", v |-> <<x>>] : x \in IndexTexts}
        \cup {[t |-> "s", v |-> <<>>], [t |-> "", v |-> <<>>], [t |-> "", v |-> <<"1">>]}
ElemInputs ==
    {[tag |-> "{main}row", cells |-> cs] :
        cs \in UNION {[1..n -> CellInputs] : n \in 0..MaxCells}}
        \cup {[tag |-> "{main}c", cells |-> <<>>]}

InitRows ==
    /\ pc = "iter"
    /\ err = "none" /\ header = <<>> /\ consumed = <<>> /\ stats = <<>>
    /\ totals = <<>> /\ result = <<>> /\ series = <<>> /\ window = 0
    /\ keys = <<>> /\ q = <<>> /\ total = Zero /\ operators = <<>>
    /\ trailing = <<>> /\ yielded = <<>>
    /\ SHARED \in SharedTables

\* the parser ends one element: a row element is resolved and yielded
IterElem ==
    /\ pc = "iter"
    /\ Len(consumed) < MaxElems
    /\ \E elem \in ElemInputs :
          /\ consumed' = Append(consumed, elem)
          /\ IF EndsWithRow(elem.tag)
             THEN LET r == RowOf(SHARED, elem.cells)
                  IN  IF r.e # "none"
                      THEN /\ pc' = "error" /\ err' = r.e /\ UNCHANGED yielded
                      ELSE /\ yielded' = Append(yielded, r.v) /\ UNCHANGED <<pc, err>>
             ELSE UNCHANGED <<pc, err, yielded>>
    /\ UNCHANGED <<header, stats, totals, result, series, window, keys, q,
                   total, operators, trailing, SHARED>>

\* the parser reaches the end of the part
IterEnd ==
    /\ pc = "iter"
    /\ pc' = "done"
    /\ UNCHANGED <<err, header, consumed, stats, totals, result, series, window,
                   keys, q, total, operators, trailing, SHARED, yielded>>

NextRows == IterElem \/ IterEnd
SpecRows == InitRows /\ [][NextRows]_vars

-----------------------------------------------------------------------------
(* Properties of trailing_average.                                         *)
Min(a, b) == IF a < b THEN a ELSE b
Range(s) == {s[j] : j \in 1..Len(s)}

RECURSIVE SumRaw(_, _, _, _)
\* sum of the raw series values of the periods ks[lo..hi]
SumRaw(d, ks, lo, hi) ==
    IF lo > hi THEN Zero
    ELSE RatAdd(DictGet(d, ks[hi]), SumRaw(d, ks, lo, hi - 1))

RECURSIVE SumSeq(_)
SumSeq(s) == IF s = <<>> THEN Zero ELSE RatAdd(Head(s), SumSeq(Tail(s)))

\* C1: for every series and window >= 1 the periods are processed in
\* ascending (year, month) order whatever the mapping's own order, and the
\* value output for the i-th processed period is the sum of the raw values of
\* the last min(i, window) processed periods (i counted from 1) divided by
\* min(i, window); on return every period of the series has its entry.
C1_TrailingValue ==
    (pc \in {"trail", "done"} /\ window >= 1) =>
        /\ \A a, b \in 1..Len(consumed) :
              a < b => PeriodLess(consumed[a], consumed[b])
        /\ \A a \in 1..Len(consumed) : \A j \in 1..Len(series) :
              series[j].k \notin Range(consumed) => PeriodLess(consumed[a], series[j].k)
        /\ \A i \in 1..Len(consumed) :
              LET n == Min(i, window)
              IN  /\ DictHas(result, consumed[i])
                  /\ DictGet(result, consumed[i])
                        = RatDiv(SumRaw(series, consumed, i - n + 1, i), FromInt(n))
        /\ pc = "done" =>
              /\ Len(consumed) = Len(series)
              /\ Len(result) = Len(series)

\* raw values 1, 2, 3 given out of chronological order, window 12,
\* smoothed to 1, 1.5, 2
C1_Witness ==
    /\ pc = "done" /\ window = DefaultWindow
    /\ series = << [k |-> <<2024, 1>>, v |-> FromInt(2)],
                   [k |-> <<2024, 12>>, v |-> FromInt(3)],
                   [k |-> <<2023, 12>>, v |-> FromInt(1)] >>
    /\ consumed = << <<2023, 12>>, <<2024, 1>>, <<2024, 12>> >>
    /\ DictGet(result, <<2023, 12>>) = <<1, 1>>
    /\ DictGet(result, <<2024, 1>>) = <<3, 2>>
    /\ DictGet(result, <<2024, 12>>) = <<2, 1>>

C9_Inv ==
    (pc \in {"trail", "done"} /\ window >= 1) =>
        LET i == Len(consumed)
            n == Min(i, window)
        IN  /\ Len(q) <= window
            /\ Len(q) = n
            /\ \A j \in 1..n : q[j] = DictGet(series, consumed[i - n + j])
            /\ total = SumSeq(q)

C9_Step ==
    (pc = "trail" /\ window >= 1 /\ consumed' # consumed) =>
        LET v == DictGet(series, consumed'[Len(consumed')])
        IN  \/ q' = Append(q, v)
            \/ q' = Tail(Append(q, v))

\* C9: after every step of the loop, for window >= 1, the queue holds at
\* most window values, they are the raw values of the most recently processed
\* periods oldest first, the running total is the sum of the queued values,
\* and a step evicts at most one value.
C9_QueueInvariant == [](C9_Inv) /\ [][C9_Step]_vars

\* the queue is full and a step has evicted the oldest value
C9_Witness ==
    /\ pc = "trail" /\ window = 2 /\ Len(consumed) = 3 /\ Len(q) = 2
    /\ q[1] # q[2]
    /\ DictGet(series, consumed[1]) # Zero
    /\ total = RatAdd(q[1], q[2])

-----------------------------------------------------------------------------
(* Properties of monthly_weighted_avg.                                     *)
CellOf(row, c) == row[Idx(header, c)]
RowPeriod(row) == <<NumberOf(CellOf(row, "bet_year")), NumberOf(CellOf(row, "bet_month"))>>
RowWeight(row) == NumberOf(CellOf(row, "count_of_bets"))
RowMetric(row) ==
    LET t == CellOf(row, "avg_leg_count_inclusiveofstraightbets")
    IN  IF t = "" THEN 0 ELSE NumberOf(t)

RECURSIVE SumWeight(_, _, _)
\* sum of the weights of the first n rows of rs that fall in period p
SumWeight(rs, n, p) ==
    IF n = 0 THEN 0
    ELSE SumWeight(rs, n - 1, p) + (IF RowPeriod(rs[n]) = p THEN RowWeight(rs[n]) ELSE 0)

RECURSIVE SumWeighted(_, _, _)
\* sum of metric * weight over the first n rows of rs that fall in period p
SumWeighted(rs, n, p) ==
    IF n = 0 THEN 0
    ELSE SumWeighted(rs, n - 1, p)
           + (IF RowPeriod(rs[n]) = p THEN RowMetric(rs[n]) * RowWeight(rs[n]) ELSE 0)

\* C2: whenever monthly_weighted_avg returns, its result has exactly one
\* entry per period occurring in the data rows, valued
\* sum(metric * weight) / sum(weight) over the rows of the period when the
\* weights do not sum to zero and 0.0 when they do, an empty metric text
\* counting as 0.0.
C2_MonthlyValue ==
    (pc = "done" /\ header \in MonthlyHeaders) =>
        LET ps == {RowPeriod(consumed[j]) : j \in 1..Len(consumed)}
        IN  /\ {result[j].k : j \in 1..Len(result)} = ps
            /\ Len(result) = Cardinality(ps)
            /\ \A p \in ps :
                 LET w == SumWeight(consumed, Len(consumed), p)
                     ws == SumWeighted(consumed, Len(consumed), p)
                 IN  DictGet(result, p) = IF w # 0 THEN Rat(ws, w) ELSE Zero

\* rows (2024, 1, count 2, avg 10) and (2024, 1, count 1, avg 4) give 8.0
C2_Witness ==
    /\ pc = "done" /\ header = HeaderA
    /\ consumed = << <<"A", "2024", "1", "2", "10", "1">>,
                     <<"A", "2024", "1", "1", "4", "1">> >>
    /\ result = << [k |-> <<2024, 1>>, v |-> <<8, 1>>] >>

\* C5: a header lacking a required column makes the aggregation fail before
\* any data row is read, also for a sheet with a header and no data rows.
C5_UnknownColumnFirst ==
    (header \in MonthlyHeaders /\ \E c \in MonthlyCols : ~HasCol(header, c)) =>
        /\ pc # "done"
        /\ consumed = <<>>

\* C6: a data row whose count_of_bets cell is empty is accumulated with
\* weight 0.0 and is never the row that aborts the pass.
C6_EmptyWeightIsZero ==
    (header = HeaderA /\ pc = "error") =>
        LET row == consumed[Len(consumed)]
        IN  ~(Len(row) = Len(header) /\ CellOf(row, "count_of_bets") = "")

\* C8: a data row whose length differs from the header's makes the pass
\* fail; it is never accumulated.
C8_RaggedRowFails ==
    header \in {HeaderA, HeaderB} =>
        \A j \in 1..Len(consumed) :
            Len(consumed[j]) # Len(header) => (pc = "error" /\ j = Len(consumed))

-----------------------------------------------------------------------------
(* Properties of top_operators.                                            *)
DataRows == SelectSeq(consumed, LAMBDA r : r # header)
RowName(row) == CellOf(row, "name")
RowHandle(row) ==
    LET t == CellOf(row, "total_bet_handle") IN IF t = "" THEN 0 ELSE NumberOf(t)

RECURSIVE HandleSum(_, _, _)
\* summed handle of category c over the first n rows of rs
HandleSum(rs, n, c) ==
    IF n = 0 THEN 0
    ELSE HandleSum(rs, n - 1, c) + (IF RowName(rs[n]) = c THEN RowHandle(rs[n]) ELSE 0)

FirstSeen(rs, c) == CHOOSE j \in 1..Len(rs) :
                        RowName(rs[j]) = c /\ \A m \in 1..(j - 1) : RowName(rs[m]) # c
Tot(c) == HandleSum(DataRows, Len(DataRows), c)

\* C3: whenever top_operators returns, it returns at most 10 distinct
\* category names of the stream in non-increasing order of summed handle
\* (empty text counted as 0), equal totals in order of first appearance in
\* the stream, and no category left out exceeds a returned one.
C3_TopOrder ==
    (pc = "done" /\ header \in TopHeaders) =>
        LET cats == {RowName(DataRows[j]) : j \in 1..Len(DataRows)}
        IN  /\ Len(result) <= TopK
            /\ Range(result) \subseteq cats
            /\ \A a, b \in 1..Len(result) : a < b =>
                 /\ result[a] # result[b]
                 /\ Tot(result[a]) >= Tot(result[b])
                 /\ Tot(result[a]) = Tot(result[b]) =>
                      FirstSeen(DataRows, result[a]) < FirstSeen(DataRows, result[b])
            /\ \A c \in cats \ Range(result) : \A r \in Range(result) :
                 Tot(c) <= Tot(r)

\* eleven categories, ten returned, A ranked among them behind the earlier
\* operators with the same total and B left out
C3_Witness ==
    /\ pc = "done" /\ header = HeaderA
    /\ Len(totals) = 11 /\ Len(result) = TopK
    /\ "B" \notin Range(result)
    /\ \E a, b \in 1..Len(result) :
         /\ a < b /\ result[b] = "A" /\ result[a] = "P3"
         /\ Tot("A") = Tot("P3") /\ Tot("A") = 2

-----------------------------------------------------------------------------
(* Properties of operator_trailing.                                        *)
RECURSIVE MonthlyFold(_, _, _)
\* the accumulators monthly_weighted_avg's loop builds from the rows rs
MonthlyFold(st, hdr, rs) ==
    IF rs = <<>> THEN st
    ELSE MonthlyFold(MonthlyBody(st, hdr, Head(rs)).stats, hdr, Tail(rs))

RowsOf(c) == SelectSeq(consumed, LAMBDA r : RowName(r) = c)

\* C4: each selected category's per-period value is finalized as in
\* monthly_weighted_avg, weighted_sum / weight_total or 0.0 for a group of
\* zero total weight, and a zero-weight group never makes the operation fail.
C4_ZeroWeightGroup ==
    header \in OpHeaders =>
        /\ ~(pc = "error" /\ err = "ZeroDivisionError")
        /\ \A j \in 1..Len(trailing) :
             trailing[j].v
               = trailing_average(Finalize(OpAccGet(stats, trailing[j].k)),
                                  DefaultWindow).result

\* C10: once operator_trailing has ended on rows whose selected categories
\* all carry a count, it has returned, and the series of every selected
\* category c is trailing_average of the monthly weighted average of the rows
\* named c alone, empty when c has no rows.
C10_PerCategoryEquivalence ==
    (/\ header \in OpHeaders
     /\ pc \in {"done", "error"}
     /\ \A j \in 1..Len(consumed) :
          InSeq(RowName(consumed[j]), operators)
            => CellOf(consumed[j], "count_of_bets") # "") =>
        /\ pc = "done"
        /\ \A j \in 1..Len(operators) :
             /\ DictHas(trailing, operators[j])
             /\ DictGet(trailing, operators[j])
                  = trailing_average(
                        Finalize(MonthlyFold(<<>>, header, RowsOf(operators[j]))),
                        DefaultWindow).result

-----------------------------------------------------------------------------
(* Properties of iter_rows.                                                *)
RowElems(n) == {m \in 1..n : EndsWithRow(consumed[m].tag)}

\* C7: a cell flagged t="s" whose text is an integer outside 0..N-1 of the
\* shared-string table, negative ones included, makes the stream fail with
\* the index error and is never resolved; an index i in range resolves to
\* the i-th string of the table.
C7_SharedIndexRange ==
    pc \in {"iter", "done", "error"} =>
        \A j \in 1..Len(consumed) : \A n \in 1..Len(consumed[j].cells) :
            LET c == consumed[j].cells[n]
                failed == pc = "error" /\ j = Len(consumed)
            IN  (EndsWithRow(consumed[j].tag) /\ c.t = "s" /\ c.v # <<>>) =>
                    LET i == NumberOf(c.v[1])
                    IN  IF 0 <= i /\ i < Len(SHARED)
                        THEN ~failed =>
                               yielded[Cardinality(RowElems(j))][n] = SHARED[i + 1]
                        ELSE failed /\ err = "IndexError"

====
